---- MODULE Spec2Model ----
(***************************************************************************)
(* Model of the enum_str! macro (src/src/lib.rs).                          *)
(*                                                                         *)
(* One macro invocation turns a specification list of (key, value) pairs   *)
(* into an enum, an as_str method, a Display impl and a FromStr impl.      *)
(* The model has the invocation as one action (Generate) and the calls of  *)
(* the generated functions as actions of a set of caller threads.          *)
(* Strings are sequences of characters, identifiers are the strings of     *)
(* their text.                                                             *)
(***************************************************************************)
EXTENDS Integers, Sequences, FiniteSets

\* ---- bounds -------------------------------------------------------------
MaxLen == 2        \* longest string literal / input string
MaxPairs == 2      \* longest specification list
NumThreads == 2    \* caller threads

\* characters of the string literals; identifiers add the capital letter
Alphabet == {"a"}
Threads == 1..NumThreads

Strings == UNION {[1..n -> Alphabet] : n \in 0..MaxLen}

\* identifiers usable as $key, as the strings of their text
Idents == {<<"A">>, <<"a">>}

\* what a caller may hand to from_str
Inputs == Strings \cup Idents

PairT == [key : Idents, value : Strings]

\* every specification list that can be written within the bounds
Lists == UNION {[1..n -> PairT] : n \in 0..MaxPairs}

VARIABLES
    pairs,   \* the specification list of the macro invocation
    gen,     \* "none": not yet invoked, "ok": expansion compiled, "rejected"
    thr      \* per thread: the call in flight and its result

vars == <<pairs, gen, thr>>

\* ---- strings ------------------------------------------------------------

\* equality of two str values: same length, same characters
StrEq(a, b) ==
    /\ Len(a) = Len(b)
    /\ \A i \in 1..Len(a) : a[i] = b[i]

Lower(c) == IF c = "A" THEN "a" ELSE c

StrEqIgnoreCase(a, b) ==
    /\ Len(a) = Len(b)
    /\ \A i \in 1..Len(a) : Lower(a[i]) = Lower(b[i])

StartsWith(a, b) ==
    /\ Len(b) <= Len(a)
    /\ \A i \in 1..Len(b) : a[i] = b[i]

\* ---- the generated enum -------------------------------------------------

\* enum $name { $($key),* }: the variants, in declaration order
EnumDef(ps) == [i \in 1..Len(ps) |-> ps[i].key]

Variants(ps) == {EnumDef(ps)[i] : i \in 1..Len(ps)}

\* a fieldless enum numbers its variants 0, 1, ... in declaration order
Discriminant(ps, k) ==
    (CHOOSE i \in 1..Len(ps) : EnumDef(ps)[i] = k) - 1

\* index of the arm `&$name::$key => ...` a match on variant k takes
RECURSIVE ArmFrom(_, _, _)
ArmFrom(ps, k, i) ==
    IF i > Len(ps) THEN 0
    ELSE IF ps[i].key = k THEN i
    ELSE ArmFrom(ps, k, i + 1)

MatchArm(ps, k) == ArmFrom(ps, k, 1)

AsStrIdent(ps, k) == k

\* fn as_str(&self) -> &str
AsStr(ps, k) == ps[MatchArm(ps, k)].value

PartialEqByStr(ps, a, b) == AsStr(ps, a) = AsStr(ps, b)

\* #[derive(PartialEq)]: two values are equal iff their discriminants are
PartialEq(ps, a, b) == Discriminant(ps, a) = Discriminant(ps, b)

FmtDebug(ps, k, f) == f \o <<"'">> \o ps[MatchArm(ps, k)].value \o <<"'">>

\* Display::fmt: write!(f, "{}", $value) appends the value to the sink f
Fmt(ps, k, f) == f \o ps[MatchArm(ps, k)].value

\* to_string(): format into an empty buffer and return it
ToString(ps, k) == Fmt(ps, k, <<>>)

\* ---- from_str -----------------------------------------------------------

Ok(k) == <<"Ok", k>>
Err == <<"Err", <<>>>>

ArmMatchesIgnoreCase(ps, i, val) == StrEqIgnoreCase(val, ps[i].value)

ArmMatchesPrefix(ps, i, val) == StartsWith(ps[i].value, val)

\* does the arm `$value => Ok($name::$key)` of pair i take the input val
ArmMatches(ps, i, val) == StrEq(val, ps[i].value)

RECURSIVE FromStrLast(_, _, _)
FromStrLast(ps, val, i) ==
    IF i > Len(ps) THEN Err
    ELSE LET j == Len(ps) + 1 - i
         IN  IF ArmMatches(ps, j, val) THEN Ok(ps[j].key)
             ELSE FromStrLast(ps, val, i + 1)

\* the arms are tried in declaration order from arm i on, then `_ => Err(())`
RECURSIVE FromStrFrom(_, _, _)
FromStrFrom(ps, val, i) ==
    IF i > Len(ps) THEN Err
    ELSE IF ArmMatches(ps, i, val) THEN Ok(ps[i].key)
    ELSE FromStrFrom(ps, val, i + 1)

\* fn from_str(val: &str) -> Result<Self, ()>
FromStr(ps, val) == FromStrFrom(ps, val, 1)

\* ---- the expansion ------------------------------------------------------

\* the body of from_str's match: $( arm ),* then `,` then the `_` arm
RECURSIVE ArmList(_)
ArmList(n) ==
    IF n = 0 THEN <<>>
    ELSE IF n = 1 THEN <<"arm">>
    ELSE ArmList(n - 1) \o <<",", "arm">>

FromStrMatchBody(ps) == ArmList(Len(ps)) \o <<",", "_">>

\* a match body parses when every comma follows an arm
MatchBodyParses(toks) ==
    /\ Len(toks) > 0
    /\ toks[1] # ","
    /\ \A i \in 1..(Len(toks) - 1) : ~(toks[i] = "," /\ toks[i + 1] = ",")

\* as_str and fmt match on `self: &Self` with one arm per key; a match on a
\* reference with no arms is never accepted as exhaustive
SelfMatchExhaustive(ps) ==
    /\ Len(ps) > 0
    /\ \A k \in Variants(ps) : MatchArm(ps, k) # 0

\* an enum may not name a variant twice
VariantsDistinct(ps) ==
    \A i, j \in 1..Len(ps) : ps[i].key = ps[j].key => i = j

\* the matcher `$name:ident, $(($key:ident, $value:expr),)*` alone
MatcherAccepts(ps) == VariantsDistinct(ps)

\* the invocation builds: the matcher takes the list and the expansion compiles
Accepts(ps) ==
    /\ VariantsDistinct(ps)
    /\ MatchBodyParses(FromStrMatchBody(ps))
    /\ SelfMatchExhaustive(ps)

\* ---- state --------------------------------------------------------------

Idle == [pc |-> "idle", op |-> "none", arg |-> <<>>, i |-> 0, res |-> <<>>]

Init ==
    /\ pairs = <<>>
    /\ gen = "none"
    /\ thr = [t \in Threads |-> Idle]

\* enum_str! { Name, (k1, v1), ..., (kn, vn), }
Generate(list) ==
    /\ gen = "none"
    /\ pairs' = list
    /\ gen' = IF Accepts(list) THEN "ok" ELSE "rejected"
    /\ UNCHANGED thr

\* thread t evaluates k.as_str()
CallAsStr(t, k) ==
    /\ gen = "ok"
    /\ thr[t].pc = "idle"
    /\ k \in Variants(pairs)
    /\ thr' = [thr EXCEPT ![t] =
                 [pc |-> "done", op |-> "as_str", arg |-> k, i |-> 0,
                  res |-> AsStr(pairs, k)]]
    /\ UNCHANGED <<pairs, gen>>

\* thread t evaluates k.to_string()
CallToString(t, k) ==
    /\ gen = "ok"
    /\ thr[t].pc = "idle"
    /\ k \in Variants(pairs)
    /\ thr' = [thr EXCEPT ![t] =
                 [pc |-> "done", op |-> "to_string", arg |-> k, i |-> 0,
                  res |-> ToString(pairs, k)]]
    /\ UNCHANGED <<pairs, gen>>

\* thread t enters Name::from_str(s)
CallFromStr(t, s) ==
    /\ gen = "ok"
    /\ thr[t].pc = "idle"
    /\ thr' = [thr EXCEPT ![t] =
                 [pc |-> "matching", op |-> "from_str", arg |-> s, i |-> 1,
                  res |-> <<>>]]
    /\ UNCHANGED <<pairs, gen>>

FromStrStepShared(t) ==
    /\ thr[t].pc = "matching"
    /\ LET cur == IF thr[1].pc = "matching" THEN thr[1].i ELSE thr[t].i
       IN  IF cur > Len(pairs)
           THEN thr' = [thr EXCEPT ![t].pc = "done", ![t].i = 0,
                                   ![t].res = Err]
           ELSE IF ArmMatches(pairs, cur, thr[t].arg)
           THEN thr' = [thr EXCEPT ![t].pc = "done", ![t].i = 0,
                                   ![t].res = Ok(pairs[cur].key)]
           ELSE thr' = [thr EXCEPT ![t].i = cur + 1]
    /\ UNCHANGED <<pairs, gen>>

FromStrStepEvict(t) ==
    /\ thr[t].pc = "matching"
    /\ IF thr[t].i > Len(pairs)
       THEN /\ thr' = [thr EXCEPT ![t].pc = "done", ![t].i = 0,
                                  ![t].res = Err]
            /\ pairs' = IF Len(pairs) > 1 THEN Tail(pairs) ELSE pairs
       ELSE IF ArmMatches(pairs, thr[t].i, thr[t].arg)
       THEN /\ thr' = [thr EXCEPT ![t].pc = "done", ![t].i = 0,
                                  ![t].res = Ok(pairs[thr[t].i].key)]
            /\ pairs' = pairs
       ELSE /\ thr' = [thr EXCEPT ![t].i = thr[t].i + 1]
            /\ pairs' = pairs
    /\ UNCHANGED gen

\* from_str in thread t tries its next arm
FromStrStep(t) ==
    /\ thr[t].pc = "matching"
    /\ IF thr[t].i > Len(pairs)
       THEN thr' = [thr EXCEPT ![t].pc = "done", ![t].i = 0,
                               ![t].res = Err]
       ELSE IF ArmMatches(pairs, thr[t].i, thr[t].arg)
       THEN thr' = [thr EXCEPT ![t].pc = "done", ![t].i = 0,
                               ![t].res = Ok(pairs[thr[t].i].key)]
       ELSE thr' = [thr EXCEPT ![t].i = thr[t].i + 1]
    /\ UNCHANGED <<pairs, gen>>

\* the caller takes the result; the thread is free for its next call
Return(t) ==
    /\ thr[t].pc = "done"
    /\ thr' = [thr EXCEPT ![t] = Idle]
    /\ UNCHANGED <<pairs, gen>>

Next ==
    \/ \E list \in Lists : Generate(list)
    \/ \E t \in Threads, k \in Idents : CallAsStr(t, k)
    \/ \E t \in Threads, k \in Idents : CallToString(t, k)
    \/ \E t \in Threads, s \in Inputs : CallFromStr(t, s)
    \/ \E t \in Threads : FromStrStep(t)
    \/ \E t \in Threads : Return(t)

Spec == Init /\ [][Next]_vars

\* ---- properties ---------------------------------------------------------

Keys(ps) == {ps[i].key : i \in 1..Len(ps)}
Values(ps) == {ps[i].value : i \in 1..Len(ps)}

\* the first pair of the list that carries the value v
FirstWith(ps, v) ==
    CHOOSE i \in 1..Len(ps) :
        /\ ps[i].value = v
        /\ \A j \in 1..(i - 1) : ps[j].value # v

Done(t, o) == thr[t].pc = "done" /\ thr[t].op = o

ProperPrefix(a, b) ==
    /\ Len(a) < Len(b)
    /\ \A i \in 1..Len(a) : a[i] = b[i]

\* C1 as stated: for every pair (key_i, value_i) of every accepted list,
\* from_str(as_str(key_i)) returns Ok(key_i).
C1_RoundTripEveryPair ==
    gen = "ok" =>
        \A i \in 1..Len(pairs) :
            FromStr(pairs, AsStr(pairs, pairs[i].key)) = Ok(pairs[i].key)

\* C1 amended: from_str(as_str(key_i)) returns Ok of the first key declared
\* with value_i; that is Ok(key_i) exactly for the pairs whose value no
\* earlier pair carries, so for every pair of a list with distinct values.
C1_RoundTripFirstKey ==
    gen = "ok" =>
        \A i \in 1..Len(pairs) :
            LET r == FromStr(pairs, AsStr(pairs, pairs[i].key))
                f == FirstWith(pairs, pairs[i].value)
            IN  /\ r = Ok(pairs[f].key)
                /\ (f = i => r = Ok(pairs[i].key))
                /\ (f # i => r # Ok(pairs[i].key))

C1_Witness ==
    /\ gen = "ok"
    /\ Len(pairs) = 2
    /\ pairs[1].value # pairs[2].value
    /\ \E t \in Threads :
        /\ Done(t, "from_str")
        /\ thr[t].arg = AsStr(pairs, pairs[2].key)
        /\ thr[t].res = Ok(pairs[2].key)

\* C2: an input equal to no declared value parses to the error result, in
\* every call a thread has completed and for every input there is.
C2_ExactMatch ==
    gen = "ok" =>
        /\ \A s \in Inputs :
            s \notin Values(pairs) => FromStr(pairs, s) = Err
        /\ \A t \in Threads :
            Done(t, "from_str") /\ thr[t].arg \notin Values(pairs)
                => thr[t].res = Err

\* thread 1 got an error for the text of a declared key that differs only in
\* case from that key's value, thread 2 for a proper prefix of a declared
\* value
C2_Witness ==
    /\ gen = "ok"
    /\ Done(1, "from_str") /\ thr[1].res = Err
    /\ thr[1].arg \in Keys(pairs)
    /\ thr[1].arg # AsStr(pairs, thr[1].arg)
    /\ StrEqIgnoreCase(thr[1].arg, AsStr(pairs, thr[1].arg))
    /\ Done(2, "from_str") /\ thr[2].res = Err
    /\ \E v \in Values(pairs) : ProperPrefix(thr[2].arg, v)

\* C3: as_str of key_i is the string value_i of the same pair, for every
\* variant, and every completed as_str call returned it.
C3_AsStrExact ==
    gen = "ok" =>
        /\ \A i \in 1..Len(pairs) :
            /\ AsStr(pairs, pairs[i].key) = pairs[i].value
            /\ AsStr(pairs, pairs[i].key) \in Strings
        /\ \A t \in Threads :
            Done(t, "as_str") =>
                \E i \in 1..Len(pairs) :
                    pairs[i].key = thr[t].arg /\ thr[t].res = pairs[i].value

C3_Witness ==
    /\ gen = "ok"
    /\ Len(pairs) = 2
    /\ pairs[1].value # pairs[2].value
    /\ \E t \in Threads :
        /\ Done(t, "as_str")
        /\ thr[t].arg = pairs[2].key
        /\ thr[t].res = pairs[2].value

\* C4: the text Display writes for a variant is as_str of the variant: into
\* an empty buffer (to_string) it is that text, into a sink that already
\* holds f it is f followed by that text.
C4_DisplayEquivalence ==
    gen = "ok" =>
        /\ \A k \in Variants(pairs) :
            /\ ToString(pairs, k) = AsStr(pairs, k)
            /\ \A f \in Strings : Fmt(pairs, k, f) = f \o AsStr(pairs, k)
        /\ \A t \in Threads :
            Done(t, "to_string") => thr[t].res = AsStr(pairs, thr[t].arg)

C4_Witness ==
    /\ gen = "ok"
    /\ \E t \in Threads :
        /\ Done(t, "to_string")
        /\ Len(thr[t].res) > 0
        /\ thr[t].res = AsStr(pairs, thr[t].arg)

\* C5: when key_i is the first key declared with a value that a later key_j
\* carries too, from_str of that value is Ok(key_i) and not Ok(key_j), and
\* as_str of both keys is that value.
C5_FirstMatch ==
    gen = "ok" =>
        /\ \A i, j \in 1..Len(pairs) :
            (i < j /\ pairs[i].value = pairs[j].value
                   /\ FirstWith(pairs, pairs[i].value) = i)
            => /\ FromStr(pairs, pairs[i].value) = Ok(pairs[i].key)
               /\ FromStr(pairs, pairs[i].value) # Ok(pairs[j].key)
               /\ AsStr(pairs, pairs[i].key) = pairs[i].value
               /\ AsStr(pairs, pairs[j].key) = pairs[i].value
        /\ \A t \in Threads :
            Done(t, "from_str") /\ thr[t].arg \in Values(pairs)
                => thr[t].res = Ok(pairs[FirstWith(pairs, thr[t].arg)].key)

C5_Witness ==
    /\ gen = "ok"
    /\ Len(pairs) = 2
    /\ pairs[1].value = pairs[2].value
    /\ \E t \in Threads :
        /\ Done(t, "from_str")
        /\ thr[t].arg = pairs[2].value
        /\ thr[t].res = Ok(pairs[1].key)

\* C6: the invocation with no pairs is rejected, an accepted list has at
\* least one pair, and nothing generated is ever called after a rejection.
C6_EmptyRejected ==
    /\ (gen = "ok" => Len(pairs) >= 1)
    /\ (gen # "none" /\ Len(pairs) = 0 => gen = "rejected")
    /\ (gen # "ok" => \A t \in Threads : thr[t] = Idle)

C6_Witness == gen = "rejected" /\ pairs = <<>>

\* C7: n pairs give n variants, one per key, equality on the type is
\* equality of keys, and the variant a parse returns equals its key only.
C7_VariantsAndEquality ==
    gen = "ok" =>
        /\ Len(EnumDef(pairs)) = Len(pairs)
        /\ Cardinality(Variants(pairs)) = Len(pairs)
        /\ Variants(pairs) = Keys(pairs)
        /\ \A a, b \in Variants(pairs) : PartialEq(pairs, a, b) <=> a = b
        /\ \A t \in Threads :
            Done(t, "from_str") /\ thr[t].res # Err =>
                \E i \in 1..Len(pairs) :
                    /\ thr[t].res = Ok(pairs[i].key)
                    /\ PartialEq(pairs, thr[t].res[2], pairs[i].key)
                    /\ \A j \in 1..Len(pairs) :
                        j # i => ~PartialEq(pairs, thr[t].res[2], pairs[j].key)

C7_Witness ==
    /\ gen = "ok"
    /\ Len(pairs) = 2
    /\ \E t \in Threads :
        /\ Done(t, "from_str")
        /\ thr[t].res = Ok(pairs[2].key)
        /\ PartialEq(pairs, thr[t].res[2], pairs[2].key)
        /\ ~PartialEq(pairs, thr[t].res[2], pairs[1].key)

\* the result of a call run alone on its input
Alone(o, a) ==
    IF o = "as_str" THEN AsStr(pairs, a)
    ELSE IF o = "to_string" THEN ToString(pairs, a)
    ELSE FromStr(pairs, a)

\* C8: whatever the interleaving of the threads' calls, a completed call
\* holds the result the same call gives when run alone.
C8_ConcurrentSafe ==
    \A t \in Threads :
        thr[t].pc = "done" => thr[t].res = Alone(thr[t].op, thr[t].arg)

\* thread 2 completed a parse that needed two arms while thread 1 is in the
\* middle of a parse of another input
C8_Witness ==
    /\ gen = "ok"
    /\ Len(pairs) = 2
    /\ thr[1].pc = "matching" /\ thr[1].i = 2
    /\ Done(2, "from_str")
    /\ thr[2].res = Ok(pairs[2].key)
    /\ thr[1].arg # thr[2].arg

VariantToString(ps) == [k \in Variants(ps) |-> AsStr(ps, k)]
StringToVariant(ps) == [s \in Inputs |-> FromStr(ps, s)]

SameCallSameResult ==
    \A t, u \in Threads :
        (thr[t].pc = "done" /\ thr[u].pc = "done"
            /\ thr[t].op = thr[u].op /\ thr[t].arg = thr[u].arg)
        => thr[t].res = thr[u].res

\* C9: once generated, no step of any call changes the variant-to-string or
\* the string-to-variant mapping, and two completed calls of the same
\* operation on the same input hold the same result.
C9_MappingFixed ==
    [][gen = "ok" =>
        /\ gen' = "ok"
        /\ VariantToString(pairs') = VariantToString(pairs)
        /\ StringToVariant(pairs') = StringToVariant(pairs)
        /\ SameCallSameResult']_vars

\* a failing parse has completed, and after it a successful one of a
\* declared value
C9_Witness ==
    /\ gen = "ok"
    /\ Len(pairs) = 2
    /\ Done(1, "from_str") /\ thr[1].res = Err
    /\ Done(2, "from_str") /\ thr[2].res = Ok(pairs[1].key)

\* C10: a parse that returns Ok(k) was given as_str(k), for every input and
\* in every completed call.
C10_ParseSound ==
    gen = "ok" =>
        /\ \A s \in Inputs : \A k \in Variants(pairs) :
            FromStr(pairs, s) = Ok(k) => AsStr(pairs, k) = s
        /\ \A t \in Threads :
            Done(t, "from_str") /\ thr[t].res # Err
                => AsStr(pairs, thr[t].res[2]) = thr[t].arg

C10_Witness ==
    /\ gen = "ok"
    /\ Len(pairs) = 2
    /\ pairs[1].value = pairs[2].value
    /\ \E t \in Threads :
        /\ Done(t, "from_str")
        /\ thr[t].res = Ok(pairs[1].key)
        /\ AsStr(pairs, pairs[1].key) = thr[t].arg

====
